---- MODULE Spec2Model ----
(***************************************************************************)
(* A model of scripts/custom_helpers.py of CVE_Prioritizer: the source     *)
(* adapters (epss_check, nist_check, vulncheck_check, vulncheck_kev), the  *)
(* CPE splitter, the output routine and the per-CVE worker that runs       *)
(* under a counting semaphore and stores its result at results[index].     *)
(*                                                                         *)
(* Python values that may be None are tagged records: None is              *)
(* [t |-> "None"], a str is [t |-> "str", s |-> <<chars>>], a bool is      *)
(* [t |-> "bool", b |-> ...], a dict is [t |-> "dict", ...].  Scores are   *)
(* integers (CVSS in whole points, EPSS in tenths).                        *)
(***************************************************************************)
EXTENDS Integers, Sequences, FiniteSets, TLC

VARIABLES
    mode,            \* "nvd" | "nvd_plus" | "vc_kev": which of nvd_plus / vc_kev is set
    api,             \* the api argument: "none" | "plain" | "vulncheck" (contains 'vulncheck')
    env_vulncheck,   \* os.getenv('VULNCHECK_API') is set
    verbose_print,   \* worker's verbose_print argument
    save_output,     \* worker's save_output argument is an open file
    colored_output,  \* worker's colored_output argument (print_and_write's no_color)
    cvss_score,      \* worker's cvss_score argument (the CVSS threshold)
    epss_score,      \* worker's epss_score argument (the EPSS threshold)
    capacity,        \* the value the semaphore was created with
    sem,             \* the semaphore's counter
    launched,        \* how many workers the caller has started
    pc,              \* pc[i]: where worker i is
    exploited,       \* worker i's local exploited
    cve_result,      \* worker i's local cve_result
    epss_result,     \* worker i's local epss_result
    results,         \* the shared results list
    echoed,          \* echoed[i]: the lines worker i passed to click.echo, in order
    written,         \* written[i]: the lines worker i wrote to the output file
    requests,        \* requests[i]: the HTTP requests worker i issued, in order
    released,        \* released[i]: how many times worker i called sem.release()
    arg,             \* the argument of a function called on its own
    ret              \* what that call did

vars == <<mode, api, env_vulncheck, verbose_print, save_output, colored_output,
          cvss_score, epss_score, capacity, sem, launched, pc, exploited, cve_result,
          epss_result, results, echoed, written, requests, released, arg, ret>>

config == <<mode, api, env_vulncheck, verbose_print, save_output, colored_output,
            cvss_score, epss_score, capacity>>

(***************************************************************************)
(* Python values                                                           *)
(***************************************************************************)
None == [t |-> "None"]

Str(s) == [t |-> "str", s |-> s]

Bool(b) == [t |-> "bool", b |-> b]

Num(n) == [t |-> "num", n |-> n]

\* Python truthiness of None, a bool or a str
Truthy(v) ==
    CASE v.t = "None" -> FALSE
      [] v.t = "bool" -> v.b
      [] v.t = "str" -> Len(v.s) > 0
      [] OTHER -> TRUE

\* What a call did: returned a value, raised an exception, or called exit().
\* echo: the lines it passed to click.echo; sent: the HTTP requests it issued.
Return(v, echo, sent) == [tag |-> "return", value |-> v, exc |-> "", echo |-> echo, sent |-> sent]

Raise(e, echo, sent) == [tag |-> "raise", value |-> None, exc |-> e, echo |-> echo, sent |-> sent]

Exit(echo, sent) == [tag |-> "exit", value |-> None, exc |-> "SystemExit", echo |-> echo, sent |-> sent]

Diag(cve_id, text) == [kind |-> "diag", cve |-> cve_id, text |-> text]

(***************************************************************************)
(* parse_cpe and truncate_string                                           *)
(***************************************************************************)
RECURSIVE split(_, _, _)
\* str.split(':') over the characters of s: cur is the segment being read,
\* acc the segments already closed.
split(s, cur, acc) ==
    IF s = <<>> THEN Append(acc, cur)
    ELSE IF Head(s) = ":" THEN split(Tail(s), <<>>, Append(acc, cur))
    ELSE split(Tail(s), Append(cur, Head(s)), acc)

\* parts[k] with Python's 0-based index: the element, or IndexError
HasIndex(parts, k) == k + 1 <= Len(parts)

parse_cpe(cpe_str) ==
    IF cpe_str.t # "str" THEN Raise("AttributeError", <<>>, <<>>)
    ELSE
        LET parts == split(cpe_str.s, <<>>, <<>>) IN
        IF Len(parts) > 2 /\ ~HasIndex(parts, 3) THEN Raise("IndexError", <<>>, <<>>)
        ELSE IF Len(parts) > 3 /\ ~HasIndex(parts, 4) THEN Raise("IndexError", <<>>, <<>>)
        ELSE Return([vendor |-> IF Len(parts) > 2 THEN Str(parts[4]) ELSE None,
                     product |-> IF Len(parts) > 3 THEN Str(parts[5]) ELSE None],
                    <<>>, <<>>)

truncate_string(input_string, max_length) ==
    IF input_string.t # "str" THEN Raise("TypeError", <<>>, <<>>)
    ELSE IF Len(input_string.s) > max_length
         THEN Return(Str(SubSeq(input_string.s, 1, max_length - 3) \o <<".", ".", ".">>), <<>>, <<>>)
         ELSE Return(input_string, <<>>, <<>>)

(***************************************************************************)
(* The source adapters.  Each takes the answer the remote service gives:   *)
(* [kind |-> "ConnectionError"], or [kind |-> "http", status |-> n,        *)
(* data |-> <<entries>>]; the services' own counters (total, totalResults, *)
(* total_documents) are the number of entries.                             *)
(***************************************************************************)
PLACEHOLDER_CPE ==
    Str(<<"c", ":", "2", ":", ":", ":", ":", ":", ":", ":", ":", ":", ":", ":">>)

epss_check(cve_id, resp) ==
    IF resp.kind = "ConnectionError"
    THEN Return(None, <<Diag(cve_id, "Unable to connect to EPSS")>>, <<"EPSS">>)
    ELSE IF resp.status = 200
    THEN IF Len(resp.data) > 0
         THEN LET cve == Head(resp.data) IN
              IF cve.epss.t = "None" \/ cve.percentile.t = "None"
              THEN Raise("TypeError", <<>>, <<"EPSS">>)
              ELSE Return([t |-> "dict", epss |-> cve.epss.n,
                           percentile |-> (cve.percentile.n * 100) \div 1000],
                          <<>>, <<"EPSS">>)
         ELSE Return(None, <<Diag(cve_id, "Not Found in EPSS.")>>, <<"EPSS">>)
    ELSE Return(None, <<Diag(cve_id, "Error connecting to EPSS")>>, <<"EPSS">>)

\* The dict an adapter builds from one metric of one entry
cvss_record(version, metric, severity, cisa_kev, cpe) ==
    [t |-> "dict", cvss_version |-> version,
     cvss_baseScore |-> metric.cvssData.baseScore,
     cvss_severity |-> severity, cisa_kev |-> cisa_kev, cpe |-> cpe,
     vector |-> metric.cvssData.vectorString]

\* The cpe of one entry: configurations[0].nodes[0].cpeMatch[0].criteria.
\* A missing level raises TypeError (caught: the placeholder), an empty list
\* raises IndexError (not caught), a missing criteria key gives None.
entry_cpe(unique_cve) ==
    CASE unique_cve.configurations.t = "absent" -> Return(PLACEHOLDER_CPE, <<>>, <<>>)
      [] unique_cve.configurations.t = "empty" -> Raise("IndexError", <<>>, <<>>)
      [] OTHER -> Return(unique_cve.configurations.criteria, <<>>, <<>>)

RECURSIVE nist_loop(_, _, _, _, _)
\* for unique_cve in vulnerabilities: ... ; cisa_kev is the flag set before the
\* loop and never reset in it
nist_loop(cve_id, entries, cisa_kev, echo, sent) ==
    IF entries = <<>> THEN Return(None, echo, sent)
    ELSE
        LET unique_cve == Head(entries)
            kev == IF unique_cve.cisaExploitAdd THEN TRUE ELSE cisa_kev
            cpe == entry_cpe(unique_cve)
            metrics == unique_cve.metrics
        IN
        IF cpe.tag = "raise" THEN Raise(cpe.exc, echo, sent)
        ELSE IF metrics = None THEN Raise("AttributeError", echo, sent)
        ELSE IF metrics.cvssMetricV31 # <<>>
        THEN LET metric == Head(metrics.cvssMetricV31) IN
             Return(cvss_record("CVSS 3.1", metric, metric.cvssData.baseSeverity, kev, cpe.value),
                    echo, sent)
        ELSE IF metrics.cvssMetricV30 # <<>>
        THEN LET metric == Head(metrics.cvssMetricV30) IN
             Return(cvss_record("CVSS 3.0", metric, metric.cvssData.baseSeverity, kev, cpe.value),
                    echo, sent)
        ELSE IF metrics.cvssMetricV2 # <<>>
        THEN LET metric == Head(metrics.cvssMetricV2) IN
             Return(cvss_record("CVSS 2.0", metric, metric.baseSeverity, kev, cpe.value),
                    echo, sent)
        ELSE IF unique_cve.vulnStatus = "Awaiting Analysis"
        THEN nist_loop(cve_id, Tail(entries), kev,
                       Append(echo, Diag(cve_id, "NIST Status: Awaiting Analysis")), sent)
        ELSE nist_loop(cve_id, Tail(entries), kev, echo, sent)

\* The API key only changes the request's header.
nist_check(cve_id, resp) ==
    IF resp.kind = "ConnectionError"
    THEN Return(None, <<Diag(cve_id, "Unable to connect to NIST NVD")>>, <<"NVD">>)
    ELSE IF resp.status = 200
    THEN IF Len(resp.data) > 0
         THEN nist_loop(cve_id, resp.data, FALSE, <<>>, <<"NVD">>)
         ELSE Exit(<<Diag(cve_id, "Not Found in NIST NVD.")>>, <<"NVD">>)
    ELSE Return(None, <<Diag(cve_id, "Error code")>>, <<"NVD">>)

RECURSIVE vulncheck_loop(_, _, _, _, _)
vulncheck_loop(cve_id, entries, cisa_kev, echo, sent) ==
    IF entries = <<>> THEN Return(None, echo, sent)
    ELSE
        LET unique_cve == Head(entries)
            kev == IF unique_cve.cisaExploitAdd THEN TRUE ELSE cisa_kev
            cpe == entry_cpe(unique_cve)
            metrics == unique_cve.metrics
        IN
        IF cpe.tag = "raise" THEN Raise(cpe.exc, echo, sent)
        ELSE IF metrics = None THEN Raise("AttributeError", echo, sent)
        ELSE IF metrics.cvssMetricV31 # <<>>
        THEN LET metric == Head(metrics.cvssMetricV31) IN
             Return(cvss_record("CVSS 3.1", metric, metric.cvssData.baseSeverity, kev, cpe.value),
                    echo, sent)
        ELSE IF metrics.cvssMetricV30 # <<>>
        THEN LET metric == Head(metrics.cvssMetricV30) IN
             Return(cvss_record("CVSS 3.0", metric, metric.cvssData.baseSeverity, kev, cpe.value),
                    echo, sent)
        ELSE IF metrics.cvssMetricV2 # <<>>
        THEN LET metric == Head(metrics.cvssMetricV2) IN
             Return(cvss_record("CVSS 2.0", metric, metric.baseSeverity, kev, cpe.value),
                    echo, sent)
        ELSE IF unique_cve.vulnStatus = "Awaiting Analysis"
        THEN vulncheck_loop(cve_id, Tail(entries), kev,
                            Append(echo, Diag(cve_id, "NIST Status: Awaiting Analysis")), sent)
        ELSE vulncheck_loop(cve_id, Tail(entries), kev, echo, sent)

\* vulncheck_key: the api argument if truthy, else the environment's key
has_vulncheck_key(api_key, env_key) == api_key # "none" \/ env_key

vulncheck_check(cve_id, api_key, env_key, resp) ==
    IF ~has_vulncheck_key(api_key, env_key)
    THEN Exit(<<Diag(cve_id, "VulnCheck requires an API key")>>, <<>>)
    ELSE IF resp.kind = "ConnectionError"
    THEN Return(None, <<Diag(cve_id, "Unable to connect to VulnCheck")>>, <<"VULNCHECK">>)
    ELSE IF resp.status = 200
    THEN IF Len(resp.data) > 0
         THEN vulncheck_loop(cve_id, resp.data, FALSE, <<>>, <<"VULNCHECK">>)
         ELSE Exit(<<Diag(cve_id, "Not Found in VulnCheck.")>>, <<"VULNCHECK">>)
    ELSE Return(None, <<Diag(cve_id, "Error code")>>, <<"VULNCHECK">>)

\* Returns True on a match and None otherwise; the status code is not read.
vulncheck_kev(cve_id, api_key, env_key, resp) ==
    IF ~has_vulncheck_key(api_key, env_key)
    THEN Exit(<<Diag(cve_id, "VulnCheck requires an API key")>>, <<>>)
    ELSE IF resp.kind = "ConnectionError"
    THEN Return(None, <<Diag(cve_id, "Unable to connect to VulnCheck")>>, <<"KEV">>)
    ELSE IF Len(resp.data) > 0
    THEN Return(Bool(TRUE), <<>>, <<"KEV">>)
    ELSE Return(None, <<>>, <<"KEV">>)

(***************************************************************************)
(* Output and result building                                              *)
(***************************************************************************)
\* What print_and_write did: the lines echoed, the lines written to the file,
\* and whether it raised.  Formatting None with a width ({x:<10}) and
\* len(None) in truncate_string raise TypeError.
print_and_write(working_file, cve_id, priority, epss, cvss_base_score, cvss_version, cvss_severity, cisa_kev, verbose, cpe, vector, no_color) ==
    LET vp == parse_cpe(cpe)
        vendor == vp.value.vendor
        product == vp.value.product
        width == IF no_color THEN 22 ELSE 13
        fileline == [kind |-> "csv", cve |-> cve_id, priority |-> priority, epss |-> epss,
                     cvss |-> cvss_base_score, cvss_version |-> cvss_version,
                     cvss_severity |-> cvss_severity, kev |-> cisa_kev, cpe |-> cpe,
                     vendor |-> vendor, product |-> product, vector |-> vector]
        filed == IF working_file THEN <<fileline>> ELSE <<>>
    IN
    IF vp.tag = "raise" THEN [tag |-> "raise", exc |-> vp.exc, echo |-> <<>>, file |-> <<>>]
    ELSE IF verbose
    THEN IF \/ cvss_severity.t = "None"
            \/ truncate_string(vendor, 15).tag = "raise"
            \/ truncate_string(product, 20).tag = "raise"
         THEN [tag |-> "raise", exc |-> "TypeError", echo |-> <<>>, file |-> <<>>]
         ELSE [tag |-> "return", exc |-> "",
               echo |-> <<[kind |-> "row", cve |-> cve_id, priority |-> priority,
                           width |-> width, verbose |-> TRUE, epss |-> epss,
                           cvss |-> cvss_base_score, cvss_version |-> cvss_version,
                           cvss_severity |-> cvss_severity, kev |-> cisa_kev,
                           vendor |-> truncate_string(vendor, 15).value,
                           product |-> truncate_string(product, 20).value,
                           vector |-> vector]>>,
               file |-> filed]
    ELSE [tag |-> "return", exc |-> "",
          echo |-> <<[kind |-> "row", cve |-> cve_id, priority |-> priority,
                      width |-> width, verbose |-> FALSE]>>,
          file |-> filed]

\* get_result reads cve_result['cpe'], splits it, then reads epss_result.
get_result(cve_id, cve_res, epss_res) ==
    IF cve_res.t = "None" THEN Raise("AttributeError", <<>>, <<>>)
    ELSE LET vp == parse_cpe(cve_res.cpe) IN
         IF vp.tag = "raise" THEN Raise(vp.exc, <<>>, <<>>)
         ELSE IF epss_res.t = "None" THEN Raise("AttributeError", <<>>, <<>>)
         ELSE Return([t |-> "dict", cve_id |-> cve_id, epss |-> epss_res.epss,
                      cvss |-> cve_res.cvss_baseScore,
                      cvss_version |-> cve_res.cvss_version,
                      cvss_severity |-> cve_res.cvss_severity,
                      cpe |-> cve_res.cpe, vendor |-> vp.value.vendor,
                      product |-> vp.value.product, vector |-> cve_res.vector],
                     <<>>, <<>>)

\* classify with the CVSS comparison strict: a CVSS score equal to the
\* threshold falls to the lower branch
classify_strict(is_exploited, cvss, epss, cvss_threshold, epss_threshold) ==
    IF Truthy(is_exploited) THEN [priority |-> "Priority 0", kev |-> "TRUE"]
    ELSE IF cvss > cvss_threshold
    THEN IF epss >= epss_threshold
         THEN [priority |-> "Priority 1", kev |-> "FALSE"]
         ELSE [priority |-> "Priority 2", kev |-> "FALSE"]
    ELSE IF epss >= epss_threshold
         THEN [priority |-> "Priority 3", kev |-> "FALSE"]
         ELSE [priority |-> "Priority 4", kev |-> "FALSE"]

\* The if / elif / else of the worker that sets result['priority'] and result['kev']
classify(is_exploited, cvss, epss, cvss_threshold, epss_threshold) ==
    IF Truthy(is_exploited) THEN [priority |-> "Priority 0", kev |-> "TRUE"]
    ELSE IF cvss >= cvss_threshold
    THEN IF epss >= epss_threshold
         THEN [priority |-> "Priority 1", kev |-> "FALSE"]
         ELSE [priority |-> "Priority 2", kev |-> "FALSE"]
    ELSE IF epss >= epss_threshold
         THEN [priority |-> "Priority 3", kev |-> "FALSE"]
         ELSE [priority |-> "Priority 4", kev |-> "FALSE"]

\* store with the index ignored: every worker writes the first slot
store_first(res, index, value) == [res EXCEPT ![1] = value]

\* results[index] = value
store(res, index, value) == [res EXCEPT ![index] = value]

\* sem_release giving back two permits
sem_release_twice(s) == s + 2

\* sem.release()
sem_release(s) == s + 1

(***************************************************************************)
(* The worker.  Each worker is a thread of its own; it is suspended at its *)
(* HTTP requests, so a step runs from one request to the next.  exit()     *)
(* raises SystemExit, which `except Exception` does not catch: the thread  *)
(* ends there, without reaching sem.release(), and the other threads run   *)
(* on.                                                                     *)
(***************************************************************************)
Workers == DOMAIN pc

ERROR_RETRIEVING == "Error retrieving priority"

\* The caller: one worker per CVE, started in list order, each after
\* sem.acquire().
Launch(i) ==
    /\ i = launched + 1
    /\ i \in Workers
    /\ pc[i] = "idle"
    /\ sem > 0
    /\ sem' = sem - 1
    /\ launched' = i
    /\ pc' = [pc EXCEPT ![i] = "start"]
    /\ UNCHANGED <<config, exploited, cve_result, epss_result, results, echoed,
                   written, requests, released, arg, ret>>

\* `except Exception:` of the worker, then sem.release()
HandleAndRelease(i, lines, sent) ==
    /\ echoed' = [echoed EXCEPT ![i] = @ \o lines \o <<Diag(i, ERROR_RETRIEVING)>>]
    /\ requests' = [requests EXCEPT ![i] = @ \o sent]
    /\ sem' = sem_release(sem)
    /\ released' = [released EXCEPT ![i] = @ + 1]
    /\ pc' = [pc EXCEPT ![i] = "done"]

\* SystemExit leaves the worker: nothing after the exit() call runs
ExitThread(i, lines, sent) ==
    /\ echoed' = [echoed EXCEPT ![i] = @ \o lines]
    /\ requests' = [requests EXCEPT ![i] = @ \o sent]
    /\ pc' = [pc EXCEPT ![i] = "exited"]
    /\ UNCHANGED <<sem, released>>

\* vc_kev: exploited = vulncheck_kev(cve_id, api)
KevFetch(i, resp) ==
    /\ i \in Workers
    /\ pc[i] = "start"
    /\ mode = "vc_kev"
    /\ LET o == vulncheck_kev(i, api, env_vulncheck, resp) IN
       IF o.tag = "exit"
       THEN /\ ExitThread(i, o.echo, o.sent)
            /\ UNCHANGED exploited
       ELSE /\ exploited' = [exploited EXCEPT ![i] = o.value]
            /\ echoed' = [echoed EXCEPT ![i] = @ \o o.echo]
            /\ requests' = [requests EXCEPT ![i] = @ \o o.sent]
            /\ pc' = [pc EXCEPT ![i] = "vuln"]
            /\ UNCHANGED <<sem, released>>
    /\ UNCHANGED <<config, launched, cve_result, epss_result, results, written, arg, ret>>

\* What the vulnerability lookup of the configured mode did, the wrong-key
\* check of the NVD mode included
vuln_lookup(i, resp) ==
    IF mode \in {"vc_kev", "nvd_plus"}
    THEN vulncheck_check(i, api, env_vulncheck, resp)
    ELSE IF api = "vulncheck"
    THEN Exit(<<Diag(i, "Wrong API Key provided (VulnCheck)")>>, <<>>)
    ELSE nist_check(i, resp)

\* cve_result = <lookup>; outside vc_kev, exploited = cve_result.get("cisa_kev")
VulnFetch(i, resp) ==
    /\ i \in Workers
    /\ pc[i] = IF mode = "vc_kev" THEN "vuln" ELSE "start"
    /\ LET o == vuln_lookup(i, resp) IN
       CASE o.tag = "exit" ->
              /\ ExitThread(i, o.echo, o.sent)
              /\ UNCHANGED <<cve_result, exploited>>
         [] o.tag = "raise" ->
              /\ HandleAndRelease(i, o.echo, o.sent)
              /\ UNCHANGED <<cve_result, exploited>>
         [] o.tag = "return" /\ mode # "vc_kev" /\ o.value.t = "None" ->
              /\ HandleAndRelease(i, o.echo, o.sent)
              /\ cve_result' = [cve_result EXCEPT ![i] = o.value]
              /\ UNCHANGED exploited
         [] OTHER ->
              /\ cve_result' = [cve_result EXCEPT ![i] = o.value]
              /\ exploited' = IF mode = "vc_kev" THEN exploited
                              ELSE [exploited EXCEPT ![i] = Bool(o.value.cisa_kev)]
              /\ echoed' = [echoed EXCEPT ![i] = @ \o o.echo]
              /\ requests' = [requests EXCEPT ![i] = @ \o o.sent]
              /\ pc' = [pc EXCEPT ![i] = "epss"]
              /\ UNCHANGED <<sem, released>>
    /\ UNCHANGED <<config, launched, epss_result, results, written, arg, ret>>

\* epss_result = epss_check(cve_id)
EpssFetch(i, resp) ==
    /\ i \in Workers
    /\ pc[i] = "epss"
    /\ LET o == epss_check(i, resp) IN
       IF o.tag = "raise"
       THEN /\ HandleAndRelease(i, o.echo, o.sent)
            /\ UNCHANGED epss_result
       ELSE /\ epss_result' = [epss_result EXCEPT ![i] = o.value]
            /\ echoed' = [echoed EXCEPT ![i] = @ \o o.echo]
            /\ requests' = [requests EXCEPT ![i] = @ \o o.sent]
            /\ pc' = [pc EXCEPT ![i] = "build"]
            /\ UNCHANGED <<sem, released>>
    /\ UNCHANGED <<config, launched, exploited, cve_result, results, written, arg, ret>>

\* From results[index] = None to sem.release(): the result is built, stored
\* and printed; TypeError and AttributeError are passed over, any other
\* exception is reported.
Finish(i) ==
    /\ i \in Workers
    /\ pc[i] = "build"
    /\ LET cleared == store(results, i, None)
           g == get_result(i, cve_result[i], epss_result[i])
           c == classify(exploited[i], cve_result[i].cvss_baseScore, epss_result[i].epss,
                         cvss_score, epss_score)
           result == g.value @@ c
           pw == print_and_write(save_output, i, c.priority, epss_result[i].epss,
                                 cve_result[i].cvss_baseScore, cve_result[i].cvss_version,
                                 cve_result[i].cvss_severity, c.kev, verbose_print,
                                 cve_result[i].cpe, cve_result[i].vector, colored_output)
           passed == {"TypeError", "AttributeError"}
       IN
       IF g.tag = "raise"
       THEN /\ results' = cleared
            /\ echoed' = [echoed EXCEPT ![i] =
                             IF g.exc \in passed THEN @ ELSE Append(@, Diag(i, ERROR_RETRIEVING))]
            /\ UNCHANGED written
       ELSE /\ results' = store(cleared, i, result)
            /\ echoed' = [echoed EXCEPT ![i] =
                             CASE pw.tag = "return" -> @ \o pw.echo
                               [] pw.exc \in passed -> @
                               [] OTHER -> Append(@, Diag(i, ERROR_RETRIEVING))]
            /\ written' = [written EXCEPT ![i] = @ \o pw.file]
    /\ sem' = sem_release(sem)
    /\ released' = [released EXCEPT ![i] = @ + 1]
    /\ pc' = [pc EXCEPT ![i] = "done"]
    /\ UNCHANGED <<config, launched, exploited, cve_result, epss_result, requests, arg, ret>>

(***************************************************************************)
(* Functions called on their own                                           *)
(***************************************************************************)
Pending == [tag |-> "pending"]

CallParseCpe ==
    /\ ret = Pending
    /\ arg.fn = "parse_cpe"
    /\ ret' = parse_cpe(arg.cpe_str)
    /\ UNCHANGED <<config, sem, launched, pc, exploited, cve_result, epss_result,
                   results, echoed, written, requests, released, arg>>

CallNistCheck ==
    /\ ret = Pending
    /\ arg.fn = "nist_check"
    /\ ret' = nist_check(1, arg.resp)
    /\ UNCHANGED <<config, sem, launched, pc, exploited, cve_result, epss_result,
                   results, echoed, written, requests, released, arg>>

CallVulncheckCheck ==
    /\ ret = Pending
    /\ arg.fn = "vulncheck_check"
    /\ ret' = vulncheck_check(1, "plain", FALSE, arg.resp)
    /\ UNCHANGED <<config, sem, launched, pc, exploited, cve_result, epss_result,
                   results, echoed, written, requests, released, arg>>

(***************************************************************************)
(* Bounds and the inputs drawn within them                                 *)
(***************************************************************************)
\* CVEs in a batch
NumCVE == 2

\* Largest capacity the semaphore is created with
MaxPermits == 2

\* Scores run over 0 .. MaxScore, thresholds over 1 .. MaxScore
MaxScore == 2

\* Entries in one answer given to an adapter called on its own
MaxEntries == 2

\* Characters in a CPE string given to parse_cpe called on its own
MaxCpeLen == 6

Scores == 0 .. MaxScore

Thresholds == 1 .. MaxScore

ConnectionError == [kind |-> "ConnectionError"]

Http(status, data) == [kind |-> "http", status |-> status, data |-> data]

Metric(score, severity3, severity2) ==
    [cvssData |-> [baseScore |-> score, baseSeverity |-> severity3, vectorString |-> "AV:N"],
     baseSeverity |-> severity2]

Metrics(v31, v30, v2) == [cvssMetricV31 |-> v31, cvssMetricV30 |-> v30, cvssMetricV2 |-> v2]

Entry(kev, conf, metrics, status) ==
    [cisaExploitAdd |-> kev, configurations |-> conf, metrics |-> metrics, vulnStatus |-> status]

Criteria(cpe) == [t |-> "list", criteria |-> cpe]

HIGH == Str(<<"H", "I", "G", "H">>)

\* "c:2:a:v:p:1": six segments, vendor "v", product "p"
CPE_FULL == Str(<<"c", ":", "2", ":", "a", ":", "v", ":", "p", ":", "1">>)

\* "c:2:a:v": four segments
CPE_FOUR == Str(<<"c", ":", "2", ":", "a", ":", "v">>)

\* "c:2:a": three segments
CPE_THREE == Str(<<"c", ":", "2", ":", "a">>)

\* "c:2": two segments
CPE_TWO == Str(<<"c", ":", "2">>)

V31(score) == Metrics(<<Metric(score, HIGH, None)>>, <<>>, <<>>)

V30(score) == Metrics(<<>>, <<Metric(score, HIGH, None)>>, <<>>)

V2(score, severity) == Metrics(<<>>, <<>>, <<Metric(score, None, severity)>>)

NoMetrics == Metrics(<<>>, <<>>, <<>>)

\* One worker: every shape of entry the worker's paths tell apart
ConfigurationsOne ==
    {[t |-> "absent"], [t |-> "empty"], Criteria(None), Criteria(CPE_FULL),
     Criteria(CPE_FOUR), Criteria(CPE_THREE), Criteria(CPE_TWO)}

MetricsOne ==
    {<<None, "Analyzed">>, <<NoMetrics, "Analyzed">>, <<NoMetrics, "Awaiting Analysis">>,
     <<V2(1, None), "Analyzed">>}
    \cup {<<V31(sc), "Analyzed">> : sc \in Scores}

EntriesOne ==
    {Entry(k, c, m[1], m[2]) : k \in BOOLEAN, c \in ConfigurationsOne, m \in MetricsOne}

VulnResponsesOne ==
    {ConnectionError, Http(500, <<>>), Http(200, <<>>)}
    \cup {Http(200, <<e>>) : e \in EntriesOne}

EpssDatum(e, q) == [epss |-> e, percentile |-> q]

EpssResponsesOne ==
    {ConnectionError, Http(500, <<>>), Http(200, <<>>),
     Http(200, <<EpssDatum(None, Num(990))>>)}
    \cup {Http(200, <<EpssDatum(Num(sc), Num(990))>>) : sc \in Scores}

KevResponses == {ConnectionError, Http(200, <<>>), Http(200, <<"kev">>)}

\* A batch: the answers that decide a worker's path
VulnResponsesBatch ==
    {ConnectionError, Http(200, <<>>),
     Http(200, <<Entry(FALSE, Criteria(CPE_FULL), V31(MaxScore), "Analyzed")>>),
     Http(200, <<Entry(TRUE, Criteria(CPE_TWO), V31(0), "Analyzed")>>)}

EpssResponsesBatch ==
    {Http(200, <<>>), Http(200, <<EpssDatum(Num(1), Num(990))>>)}

\* An adapter on its own: answers of one or more entries
ConfigurationsAdapter == {[t |-> "absent"], Criteria(CPE_FULL)}

MetricsAdapter ==
    {<<NoMetrics, "Analyzed">>, <<NoMetrics, "Awaiting Analysis">>,
     <<V31(2), "Analyzed">>, <<V30(1), "Analyzed">>, <<V2(0, HIGH), "Analyzed">>,
     <<Metrics(<<Metric(2, HIGH, None)>>, <<>>, <<Metric(1, None, HIGH)>>), "Analyzed">>,
     <<Metrics(<<>>, <<Metric(1, HIGH, None)>>, <<Metric(0, None, HIGH)>>), "Analyzed">>}

EntriesAdapter ==
    {Entry(k, c, m[1], m[2]) : k \in BOOLEAN, c \in ConfigurationsAdapter, m \in MetricsAdapter}

SeqsUpTo(S, n) == UNION {[1 .. k -> S] : k \in 1 .. n}

CpeStrings == {Str(<<>>)} \cup {Str(s) : s \in SeqsUpTo({":", "a"}, MaxCpeLen)}

(***************************************************************************)
(* Specifications                                                          *)
(***************************************************************************)
\* The state before the caller starts the first of n workers
InitWorkers(n) ==
    /\ launched = 0
    /\ pc = [i \in 1 .. n |-> "idle"]
    /\ exploited = [i \in 1 .. n |-> None]
    /\ cve_result = [i \in 1 .. n |-> None]
    /\ epss_result = [i \in 1 .. n |-> None]
    /\ results = [i \in 1 .. n |-> None]
    /\ echoed = [i \in 1 .. n |-> <<>>]
    /\ written = [i \in 1 .. n |-> <<>>]
    /\ requests = [i \in 1 .. n |-> <<>>]
    /\ released = [i \in 1 .. n |-> 0]

NoCall ==
    /\ arg = [fn |-> "none"]
    /\ ret = Pending

\* A batch of NumCVE CVEs under a semaphore of 1 .. MaxPermits permits
Init ==
    /\ mode \in {"nvd", "nvd_plus", "vc_kev"}
    /\ api \in {"none", "plain", "vulncheck"}
    /\ env_vulncheck = FALSE
    /\ verbose_print \in BOOLEAN
    /\ save_output = TRUE
    /\ colored_output = FALSE
    /\ cvss_score = 1
    /\ epss_score = 1
    /\ capacity \in 1 .. MaxPermits
    /\ sem = capacity
    /\ InitWorkers(NumCVE)
    /\ NoCall

Next ==
    \/ \E i \in 1 .. NumCVE : Launch(i)
    \/ \E i \in 1 .. NumCVE, resp \in KevResponses : KevFetch(i, resp)
    \/ \E i \in 1 .. NumCVE, resp \in VulnResponsesBatch : VulnFetch(i, resp)
    \/ \E i \in 1 .. NumCVE, resp \in EpssResponsesBatch : EpssFetch(i, resp)
    \/ \E i \in 1 .. NumCVE : Finish(i)

Spec == Init /\ [][Next]_vars

\* One CVE, every configuration and every shape of answer
InitOne ==
    /\ mode \in {"nvd", "nvd_plus", "vc_kev"}
    /\ api \in {"none", "plain", "vulncheck"}
    /\ env_vulncheck \in BOOLEAN
    /\ verbose_print \in BOOLEAN
    /\ save_output \in BOOLEAN
    /\ colored_output \in BOOLEAN
    /\ cvss_score \in Thresholds
    /\ epss_score \in Thresholds
    /\ capacity = 1
    /\ sem = capacity
    /\ InitWorkers(1)
    /\ NoCall

NextOne ==
    \/ Launch(1)
    \/ \E resp \in KevResponses : KevFetch(1, resp)
    \/ \E resp \in VulnResponsesOne : VulnFetch(1, resp)
    \/ \E resp \in EpssResponsesOne : EpssFetch(1, resp)
    \/ Finish(1)

SpecOne == InitOne /\ [][NextOne]_vars

NoWorkers ==
    /\ mode = "nvd"
    /\ api = "none"
    /\ env_vulncheck = FALSE
    /\ verbose_print = FALSE
    /\ save_output = FALSE
    /\ colored_output = FALSE
    /\ cvss_score = 1
    /\ epss_score = 1
    /\ capacity = 0
    /\ sem = capacity
    /\ InitWorkers(0)

\* parse_cpe on every string of up to MaxCpeLen characters
InitCpe ==
    /\ NoWorkers
    /\ arg \in {[fn |-> "parse_cpe", cpe_str |-> c] : c \in CpeStrings}
    /\ ret = Pending

NextCpe == CallParseCpe

SpecCpe == InitCpe /\ [][NextCpe]_vars

\* nist_check and vulncheck_check on every 200 answer of 1 .. MaxEntries entries
InitAdapter ==
    /\ NoWorkers
    /\ arg \in {[fn |-> f, resp |-> Http(200, d)] :
                  f \in {"nist_check", "vulncheck_check"},
                  d \in SeqsUpTo(EntriesAdapter, MaxEntries)}
    /\ ret = Pending

NextAdapter ==
    \/ CallNistCheck
    \/ CallVulncheckCheck

SpecAdapter == InitAdapter /\ [][NextAdapter]_vars

(***************************************************************************)
(* Properties                                                              *)
(***************************************************************************)
IsDict(v) == v.t = "dict"

Range(f) == {f[k] : k \in DOMAIN f}

Rows(i) == {k \in DOMAIN echoed[i] : echoed[i][k].kind = "row"}

Diags(i) == {k \in DOMAIN echoed[i] : echoed[i][k].kind = "diag"}

Ended(i) == pc[i] \in {"done", "exited"}

BothFetched(i) == IsDict(cve_result[i]) /\ IsDict(epss_result[i])

\* The record fetched for the CVE flags it, or the KEV catalog matched (in the
\* VulnCheck-KEV mode exploited holds what the catalog lookup returned)
KnownExploited(i) ==
    \/ cve_result[i].cisa_kev
    \/ mode = "vc_kev" /\ Truthy(exploited[i])

TablePriority(cvss, epss) ==
    CASE cvss >= cvss_score /\ epss >= epss_score -> "Priority 1"
      [] cvss >= cvss_score /\ epss < epss_score -> "Priority 2"
      [] cvss < cvss_score /\ epss >= epss_score -> "Priority 3"
      [] cvss < cvss_score /\ epss < epss_score -> "Priority 4"

\* C1: a stored result of a CVE that is not known-exploited and whose two
\* fetches returned a record has the priority of the decision table, ties
\* meeting the threshold, and kev 'FALSE'.
C1_DecisionTable ==
    \A i \in Workers :
        (pc[i] = "done" /\ BothFetched(i) /\ ~KnownExploited(i) /\ IsDict(results[i]))
        => /\ results[i].priority =
                  TablePriority(cve_result[i].cvss_baseScore, epss_result[i].epss)
           /\ results[i].kev = "FALSE"

C1_Witness ==
    \E i \in Workers :
        /\ pc[i] = "done" /\ BothFetched(i) /\ ~KnownExploited(i) /\ IsDict(results[i])
        /\ cve_result[i].cvss_baseScore = cvss_score
        /\ epss_result[i].epss = epss_score
        /\ results[i].priority = "Priority 1"

\* C2: in every mode, a stored result of a known-exploited CVE whose two
\* fetches returned a record has priority 'Priority 0' and kev 'TRUE'.
C2_KnownExploitedIsPriority0 ==
    \A i \in Workers :
        (pc[i] = "done" /\ BothFetched(i) /\ KnownExploited(i) /\ IsDict(results[i]))
        => /\ results[i].priority = "Priority 0"
           /\ results[i].kev = "TRUE"

\* C3: a worker that has ended, on any path, has released the semaphore
\* exactly once.
C3_ReleasedOnEveryPath ==
    \A i \in Workers : Ended(i) => released[i] = 1

\* Workers that were started and have not released the permit taken for them
Holding == {i \in Workers : pc[i] # "idle" /\ released[i] = 0}

\* C4: at most `capacity` workers are between their start and their release;
\* no worker releases more than once and the permits in the semaphore plus
\* those held are the capacity; with capacity 1 a worker is started only
\* after every earlier worker has released.
C4_BoundedInFlight ==
    /\ Cardinality(Holding) <= capacity
    /\ \A i \in Workers : released[i] <= 1
    /\ sem + Cardinality(Holding) = capacity
    /\ capacity = 1 =>
          \A i, j \in Workers : (i < j /\ pc[j] # "idle") => released[i] = 1

C4_Witness ==
    /\ capacity = 1
    /\ \E i, j \in Workers :
          i < j /\ released[i] = 1 /\ pc[j] = "build" /\ requests[j] # <<>>

\* C5: a step of worker i leaves every other slot as it was, a stored result
\* is never replaced or cleared, and a stored result is the one of its own
\* worker's CVE and fetches.
C5_OwnSlotOnly ==
    /\ [][\A i, j \in Workers :
            /\ (pc'[i] # pc[i] /\ j # i) => results'[j] = results[j]
            /\ IsDict(results[j]) => results'[j] = results[j]]_vars
    /\ [](\A i \in Workers :
            IsDict(results[i]) =>
                /\ pc[i] = "done"
                /\ results[i].cve_id = i
                /\ results[i].cvss = cve_result[i].cvss_baseScore
                /\ results[i].epss = epss_result[i].epss)

C5_Witness ==
    /\ Cardinality(Workers) > 1
    /\ \A i \in Workers : IsDict(results[i])
    /\ \E i, j \in Workers : results[i].cvss # results[j].cvss

\* C6: when a fetch returned nothing usable, the ended worker's slot holds no
\* result, no output line was echoed or written, at least one diagnostic was
\* echoed, and no request was issued twice.
C6_SkippedWithDiagnostic ==
    \A i \in Workers :
        (pc[i] = "done" /\ ~BothFetched(i))
        => /\ results[i] = None
           /\ Rows(i) = {}
           /\ written[i] = <<>>
           /\ Diags(i) # {}
           /\ \A a, b \in DOMAIN requests[i] : a # b => requests[i][a] # requests[i][b]

NvdNotFound ==
    \E i \in Workers : Diag(i, "Not Found in NIST NVD.") \in Range(echoed[i])

\* C7: once NVD has answered 200 with no result for a CVE, no worker stores
\* a result or emits an output line.
C7_RunEndsOnNotFound ==
    [][NvdNotFound =>
          \A j \in Workers :
              /\ IsDict(results'[j]) => results'[j] = results[j]
              /\ written'[j] = written[j]
              /\ \A k \in DOMAIN echoed'[j] :
                     echoed'[j][k].kind = "row" => k \in DOMAIN echoed[j]]_vars

HasAnyMetric(e) ==
    /\ e.metrics # None
    /\ \/ e.metrics.cvssMetricV31 # <<>>
       \/ e.metrics.cvssMetricV30 # <<>>
       \/ e.metrics.cvssMetricV2 # <<>>

\* The record of one entry alone
RecordOf(e) ==
    LET version == IF e.metrics.cvssMetricV31 # <<>> THEN "CVSS 3.1"
                   ELSE IF e.metrics.cvssMetricV30 # <<>> THEN "CVSS 3.0"
                   ELSE "CVSS 2.0"
        metric == IF version = "CVSS 3.1" THEN e.metrics.cvssMetricV31[1]
                  ELSE IF version = "CVSS 3.0" THEN e.metrics.cvssMetricV30[1]
                  ELSE e.metrics.cvssMetricV2[1]
    IN [t |-> "dict", cvss_version |-> version,
        cvss_baseScore |-> metric.cvssData.baseScore,
        cvss_severity |-> IF version = "CVSS 2.0" THEN metric.baseSeverity
                          ELSE metric.cvssData.baseSeverity,
        cisa_kev |-> e.cisaExploitAdd,
        cpe |-> IF e.configurations.t = "list" THEN e.configurations.criteria
                ELSE PLACEHOLDER_CPE,
        vector |-> metric.cvssData.vectorString]

FirstWithMetric(d) ==
    CHOOSE k \in DOMAIN d :
        HasAnyMetric(d[k]) /\ \A m \in 1 .. k - 1 : ~HasAnyMetric(d[m])

\* C8: the record an adapter returns for a 200 answer is built from the first
\* entry that has a CVSS metric, and from that entry alone.
C8_RecordFromOneEntry ==
    (ret # Pending /\ arg.fn \in {"nist_check", "vulncheck_check"}
       /\ \E k \in DOMAIN arg.resp.data : HasAnyMetric(arg.resp.data[k]))
    => /\ ret.tag = "return"
       /\ ret.value = RecordOf(arg.resp.data[FirstWithMetric(arg.resp.data)])

\* The positions of the colons of s, and its k-th colon-delimited segment
\* (k from 0)
ColonsOf(s) == {k \in DOMAIN s : s[k] = ":"}

SegmentCount(s) == Cardinality(ColonsOf(s)) + 1

SegmentAt(s, k) ==
    LET bounds == ColonsOf(s) \cup {0, Len(s) + 1}
        from == CHOOSE b \in bounds : Cardinality({c \in bounds : c < b}) = k
        to == CHOOSE b \in bounds : Cardinality({c \in bounds : c < b}) = k + 1
    IN SubSeq(s, from + 1, to - 1)

\* C9: parse_cpe returns for every string: vendor is segment 3, or None under
\* 4 segments; product is segment 4, or None under 5 segments.
C9_ParseCpeTotal ==
    (ret # Pending /\ arg.fn = "parse_cpe")
    => /\ ret.tag = "return"
       /\ ret.value.vendor = IF SegmentCount(arg.cpe_str.s) >= 4
                             THEN Str(SegmentAt(arg.cpe_str.s, 3)) ELSE None
       /\ ret.value.product = IF SegmentCount(arg.cpe_str.s) >= 5
                              THEN Str(SegmentAt(arg.cpe_str.s, 4)) ELSE None

\* The output line of CVE i was echoed and, with an output file, written
Emitted(i) ==
    /\ Cardinality(Rows(i)) = 1
    /\ save_output => Len(written[i]) = 1

\* C10: when a worker has ended, its slot holds a result exactly if its
\* output line was emitted.
C10_StoredIffEmitted ==
    \A i \in Workers :
        pc[i] = "done" =>
            /\ IsDict(results[i]) <=> Emitted(i)
            /\ ~IsDict(results[i]) => (Rows(i) = {} /\ written[i] = <<>>)

====
